---- MODULE Spec2Model ----
(***************************************************************************)
(* State-machine model of the English Learning App API: registration and   *)
(* login (JWT), AI lesson generation with per-item persistence, lesson     *)
(* retrieval and quiz scoring.  The relational store is modelled as one    *)
(* sequence of rows per table, in insertion order; a row's id is its       *)
(* position, since no operation deletes rows.                              *)
(***************************************************************************)
EXTENDS Integers, Sequences, FiniteSets, TLC

\* ------------------------------------------------------------------ bounds
MaxTicks == 2
TickMinutes == 30
MaxItems == 2
MaxLessons == 1
MaxAnswers == 2
MaxAnswerRows == 2

\* ------------------------------------------------------- program constants
ACCESS_TOKEN_EXPIRE_MINUTES == 30
SECRET_KEY == "SECRET_KEY"
ALGORITHM == "HS256"

\* -------------------------------------------------------------- input sets
Emails == {"ana@x.io", "ben@x.io"}
Passwords == {"pw1", "pw2"}
RegSlots == {1, 2}
SubSlots == {1, 2}
NoSub == ""
GhostEmail == "eve@x.io"

VARIABLES
    users,             \* table users
    lessons,           \* table lessons
    vocabulary_items,  \* table vocabulary_items
    questions,         \* table questions
    user_answers,      \* table user_answers
    now,               \* wall clock, in minutes
    held,              \* the bearer token the client keeps from its last login
    reg,               \* POST /register/ requests in flight, one per slot
    les,               \* the POST /lessons request in flight
    quiz,              \* POST /submit-answers requests in flight, one per slot
    resp               \* last response of the single-step endpoints

vars == <<users, lessons, vocabulary_items, questions, user_answers,
          now, held, reg, les, quiz, resp>>

\* ------------------------------------------------------- password hashing
hash_password(password) == [scheme |-> "bcrypt", secret |-> password]

\* Mutant: a verification that accepts any password.
verify_password_any(plain_password, hashed_password) ==
    hashed_password.scheme = "bcrypt"

verify_password(plain_password, hashed_password) ==
    hashed_password.scheme = "bcrypt" /\ hashed_password.secret = plain_password

\* ------------------------------------------------------------------ tokens
NoToken == [kind |-> "missing", sub |-> NoSub, exp |-> 0, key |-> "", alg |-> ""]
GarbageToken == [kind |-> "garbage", sub |-> NoSub, exp |-> 0, key |-> "", alg |-> ""]

jwt_encode(sub, exp, key) ==
    [kind |-> "jwt", sub |-> sub, exp |-> exp, key |-> key, alg |-> ALGORITHM]

\* jwt.decode: a JWTError for a malformed token, a signature made with another
\* key or algorithm, or an exp claim in the past.
jwt_decode_ok(token, key, t) ==
    /\ token.kind = "jwt"
    /\ token.key = key
    /\ token.alg = ALGORITHM
    /\ ~(token.exp < t)

\* Mutant: the token is issued without its subject claim.
create_access_token_no_sub(sub, t) ==
    jwt_encode(NoSub, t + ACCESS_TOKEN_EXPIRE_MINUTES, SECRET_KEY)

create_access_token(sub, t) ==
    jwt_encode(sub, t + ACCESS_TOKEN_EXPIRE_MINUTES, SECRET_KEY)

\* --------------------------------------------------------------- user CRUD
\* Mutant: the lookup filters on nothing and reports no user.
get_user_by_email_none(table, email) == 0

\* Position of the first row with that email, 0 for None.
get_user_by_email(table, email) ==
    IF \E i \in 1..Len(table) : table[i].email = email
    THEN CHOOSE i \in 1..Len(table) :
            /\ table[i].email = email
            /\ \A j \in 1..(i - 1) : table[j].email # email
    ELSE 0

create_user(table, email, password) ==
    Append(table, [id |-> Len(table) + 1, email |-> email,
                   hashed_password |-> hash_password(password)])

\* Mutant: the column is declared without its unique index.
UserEmailUnique_no_index(table, email) == TRUE

\* The unique index on users.email rejects a second row with the same email.
UserEmailUnique(table, email) ==
    \A i \in 1..Len(table) : table[i].email # email

\* Mutant: the claims are read without verifying signature or expiry.
get_current_user_unverified(token, table, t) ==
    IF token.kind # "jwt" THEN 0
    ELSE IF token.sub = NoSub THEN 0
    ELSE get_user_by_email(table, token.sub)

\* Position of the authenticated user, 0 for credentials_exception (401).
get_current_user(token, table, t) ==
    IF token.kind = "missing" THEN 0
    ELSE IF ~jwt_decode_ok(token, SECRET_KEY, t) THEN 0
    ELSE IF token.sub = NoSub THEN 0
    ELSE get_user_by_email(table, token.sub)

\* ------------------------------------------------------------- responses
IdleReg == [pc |-> "idle", email |-> "", password |-> "", status |-> 0, detail |-> ""]
IdleLes ==
    [pc |-> "idle", r |-> <<>>, lesson_id |-> 0, vi |-> 0, qi |-> 0,
     saved_vocab_count |-> 0, saved_question_count |-> 0, session_ok |-> TRUE,
     status |-> 0, detail |-> ""]
NoResp == [op |-> "none", status |-> 0, body |-> <<>>]
IdleSub ==
    [pc |-> "idle", user_id |-> 0, answers |-> <<>>, i |-> 0,
     correct_count |-> 0, processed_questions |-> 0, session_ok |-> TRUE,
     response |-> NoResp]

Init ==
    /\ users = <<>>
    /\ lessons = <<>>
    /\ vocabulary_items = <<>>
    /\ questions = <<>>
    /\ user_answers = <<>>
    /\ now = 0
    /\ held = NoToken
    /\ reg = [s \in RegSlots |-> IdleReg]
    /\ les = IdleLes
    /\ quiz = [s \in SubSlots |-> IdleSub]
    /\ resp = NoResp

\* ------------------------------------------------------- POST /register/
\* First half of register_user: the lookup and the 400 for a taken email.
RegisterLookup(s, email, password) ==
    /\ reg[s].pc \in {"idle", "done"}
    /\ LET db_user == get_user_by_email(users, email) IN
         IF db_user # 0
         THEN reg' = [reg EXCEPT ![s] =
                [pc |-> "done", email |-> email, password |-> password,
                 status |-> 400, detail |-> "Email already registered"]]
         ELSE reg' = [reg EXCEPT ![s] =
                [pc |-> "create", email |-> email, password |-> password,
                 status |-> 0, detail |-> ""]]
    /\ UNCHANGED <<quiz, users, lessons, vocabulary_items, questions, user_answers,
                   now, held, les, resp>>

\* Second half: crud.create_user, whose commit the unique index may reject; the
\* IntegrityError is not caught and the framework answers 500.
RegisterCreate(s) ==
    /\ reg[s].pc = "create"
    /\ IF UserEmailUnique(users, reg[s].email)
       THEN /\ users' = create_user(users, reg[s].email, reg[s].password)
            /\ reg' = [reg EXCEPT ![s].pc = "done", ![s].status = 201]
       ELSE /\ users' = users
            /\ reg' = [reg EXCEPT ![s].pc = "done", ![s].status = 500,
                                  ![s].detail = "Internal Server Error"]
    /\ UNCHANGED <<quiz, lessons, vocabulary_items, questions, user_answers,
                   now, held, les, resp>>

\* ------------------------------------------------------------ POST /token
LoginResponse(table, email, password, t) ==
    LET user == get_user_by_email(table, email) IN
    IF user = 0 \/ ~verify_password(password, table[user].hashed_password)
    THEN [op |-> "token", status |-> 401,
          body |-> [detail |-> "Incorrect email or password"]]
    ELSE [op |-> "token", status |-> 200,
          body |-> [access_token |-> create_access_token(table[user].email, t),
                    token_type |-> "bearer"]]

login_for_access_token(email, password) ==
    /\ resp' = LoginResponse(users, email, password, now)
    /\ held' = IF resp'.status = 200 THEN resp'.body.access_token ELSE held
    /\ UNCHANGED <<quiz, users, lessons, vocabulary_items, questions, user_answers,
                   now, reg, les>>

\* ---------------------------------------------------------- GET /users/me/
MeResponse(table, token, t) ==
    LET user == get_current_user(token, table, t) IN
    IF user = 0
    THEN [op |-> "me", status |-> 401,
          body |-> [detail |-> "Could not validate credentials"]]
    ELSE [op |-> "me", status |-> 200,
          body |-> [id |-> table[user].id, email |-> table[user].email]]

read_users_me(token) ==
    /\ resp' = MeResponse(users, token, now)
    /\ UNCHANGED <<quiz, users, lessons, vocabulary_items, questions, user_answers,
                   now, held, reg, les>>

\* ------------------------------------------------------------------ clock
Tick ==
    /\ now + TickMinutes <= MaxTicks * TickMinutes
    /\ now' = now + TickMinutes
    /\ UNCHANGED <<quiz, users, lessons, vocabulary_items, questions, user_answers,
                   held, reg, les, resp>>

\* ------------------------------------------------ upstream (Gemini) text
\* response.text as a sequence of chunks: "WS" whitespace, "FENCE_JSON" the
\* literal ```json, "FENCE" the literal ```, "DOC" one JSON document, "JUNK"
\* anything that is not JSON.
RECURSIVE LStrip(_)
LStrip(text) ==
    IF text # <<>> /\ Head(text) = "WS" THEN LStrip(Tail(text)) ELSE text

RECURSIVE RStrip(_)
RStrip(text) ==
    IF text # <<>> /\ text[Len(text)] = "WS"
    THEN RStrip(SubSeq(text, 1, Len(text) - 1)) ELSE text

strip(text) == RStrip(LStrip(text))

removeprefix(text, chunk) ==
    IF text # <<>> /\ Head(text) = chunk THEN Tail(text) ELSE text

removesuffix(text, chunk) ==
    IF text # <<>> /\ text[Len(text)] = chunk
    THEN SubSeq(text, 1, Len(text) - 1) ELSE text

StripFence(text) ==
    strip(removesuffix(removeprefix(strip(text), "FENCE_JSON"), "FENCE"))

\* json.loads succeeds only on exactly one well-formed document.
json_loads_ok(response_text, doc) ==
    response_text = <<"DOC">> /\ doc.type # "invalid"

required_keys ==
    {"title", "level", "topic", "text_passage", "vocabulary_items",
     "comprehension_questions"}

\* Mutant: the structure check forgets the required keys.
StructureOk_type_only(doc) == doc.type = "dict"

StructureOk(doc) == doc.type = "dict" /\ required_keys \subseteq doc.keys

\* -------------------------------------------------- candidate items (JSON)
Null == "<null>"
QuestionKeys == {"question_text", "options", "correct_option"}

QItem(isDict, keys, text, optionsIsList, correct) ==
    [isDict |-> isDict, keys |-> keys, question_text |-> text,
     optionsIsList |-> optionsIsList, options |-> <<"a", "b">>,
     correct_option |-> correct]

QA == QItem(TRUE, QuestionKeys, "Q-A", TRUE, "a")
QB == QItem(TRUE, QuestionKeys, "Q-B", TRUE, "b")
QBad == QItem(TRUE, {"bad"}, "", FALSE, "")
QNotDict == QItem(FALSE, {}, "", FALSE, "")
QOptsStr == QItem(TRUE, QuestionKeys, "Q-S", FALSE, "a")
QNull == QItem(TRUE, QuestionKeys, "Q-N", TRUE, Null)
QZ == QItem(TRUE, QuestionKeys, "Q-Z", TRUE, "z")
QItems == {QA, QB, QBad, QNotDict, QOptsStr, QNull}

VItem(isDict, keys, word) ==
    [isDict |-> isDict, keys |-> keys, word |-> word,
     phonetic_guide |-> "fon", translation |-> "tra"]

VGood == VItem(TRUE, {"word", "phonetic_guide", "translation"}, "work")
VNoWord == VItem(TRUE, {"phonetic_guide"}, "")
VNotDict == VItem(FALSE, {}, "")
VItems == {VGood, VNoWord, VNotDict}

SeqsUpTo(S, n) == UNION {[1..k -> S] : k \in 0..n}

JList(items) == [isList |-> TRUE, items |-> items]
NotAList == [isList |-> FALSE, items |-> <<>>]

Doc(type, keys, vocab, qs) ==
    [type |-> type, keys |-> keys, title |-> "T", level |-> "A1",
     topic |-> "food", text_passage |-> "P",
     vocabulary_items |-> vocab, comprehension_questions |-> qs]

SampleDoc == Doc("dict", required_keys, JList(<<VGood>>), JList(<<QA>>))

BadDocs ==
    {Doc("invalid", {}, NotAList, NotAList),
     Doc("list", {}, NotAList, NotAList),
     Doc("dict", required_keys \ {"comprehension_questions"},
         JList(<<VGood>>), NotAList),
     Doc("dict", required_keys \ {"title"}, JList(<<VGood>>), JList(<<QA>>))}

Wrappers ==
    {<<"DOC">>, <<"WS", "DOC", "WS">>,
     <<"FENCE_JSON", "WS", "DOC", "WS", "FENCE">>,
     <<"WS", "FENCE_JSON", "DOC", "FENCE", "WS">>,
     <<"FENCE", "WS", "DOC", "WS", "FENCE">>,
     <<"JUNK", "DOC">>, <<>>}

Upstream(ok, text, doc) == [ok |-> ok, text |-> text, doc |-> doc]

UpstreamResponses ==
    {Upstream(FALSE, <<>>, SampleDoc)}
    \cup {Upstream(TRUE, w, SampleDoc) : w \in Wrappers}
    \cup {Upstream(TRUE, <<"DOC">>, d) : d \in BadDocs}
    \cup {Upstream(TRUE, <<"DOC">>,
                   Doc("dict", required_keys, v, JList(<<QA>>)))
            : v \in {JList(x) : x \in SeqsUpTo(VItems, MaxItems)} \cup {NotAList}}
    \cup {Upstream(TRUE, <<"DOC">>,
                   Doc("dict", required_keys, JList(<<VGood>>), q))
            : q \in {JList(x) : x \in SeqsUpTo(QItems, MaxItems)} \cup {NotAList}}
    \cup {Upstream(TRUE, <<"DOC">>,
                   Doc("dict", required_keys, JList(<<VGood>>), JList(x)))
            : x \in {<<QZ>>, <<QA, QZ>>}}

\* ------------------------------------------------- lesson / question CRUD
create_lesson(table, title, level, topic, text_passage) ==
    Append(table, [id |-> Len(table) + 1, title |-> title, level |-> level,
                   topic |-> topic, text_passage |-> text_passage])

\* Mutant: the query loses its filter and returns the first lesson.
get_lesson_first(table, lesson_id) == IF Len(table) > 0 THEN 1 ELSE 0

\* Position of the lesson row with that id, 0 for None.
get_lesson(table, lesson_id) ==
    IF \E i \in 1..Len(table) : table[i].id = lesson_id
    THEN CHOOSE i \in 1..Len(table) : table[i].id = lesson_id
    ELSE 0

create_question(table, question_text, options, correct_option, lesson_id, question_type) ==
    Append(table, [id |-> Len(table) + 1, question_text |-> question_text,
                   options |-> options, correct_option |-> correct_option,
                   lesson_id |-> lesson_id, question_type |-> question_type])

\* questions.question_text and questions.correct_option are NOT NULL columns:
\* the commit of a row with a null in one of them raises IntegrityError.
QuestionRowStorable(question_text, correct_option) ==
    question_text # Null /\ correct_option # Null

\* Keyword parameters crud.create_vocabulary_item declares.
CreateVocabularyItemParams == {"db", "lesson_id", "word", "phonetic_guide"}

\* Keyword arguments create_ai_lesson passes to it.
CreateVocabularyItemCall ==
    {"db", "lesson_id", "word", "phonetic_guide", "translation"}

\* A call with a keyword the callee does not declare raises TypeError before
\* the callee's body runs.
CallAccepted(params, kwargs) == kwargs \subseteq params

create_vocabulary_item(table, lesson_id, word, phonetic_guide) ==
    Append(table, [id |-> Len(table) + 1, lesson_id |-> lesson_id,
                   word |-> word, phonetic_guide |-> phonetic_guide,
                   translation |-> Null])

\* Lesson.vocabulary_items / Lesson.questions: the rows of the child table that
\* reference the lesson, as the store returns them.
RowsOfLesson(table, lesson_id) ==
    SelectSeq(table, LAMBDA row : row.lesson_id = lesson_id)

LessonView(lesson_id) ==
    LET row == lessons[get_lesson(lessons, lesson_id)] IN
    [id |-> row.id, title |-> row.title, level |-> row.level,
     topic |-> row.topic, text_passage |-> row.text_passage,
     vocabulary_items |-> RowsOfLesson(vocabulary_items, lesson_id),
     questions |-> RowsOfLesson(questions, lesson_id)]

\* --------------------------------------------------------- POST /lessons
\* The two nested handlers of create_ai_lesson.  The inner one turns a parse or
\* structure error into one HTTPException and anything else into another; the
\* outer `except Exception` then catches whatever leaves the inner block (an
\* HTTPException is an Exception) and replaces it.
InnerExcept(exc) ==
    IF exc \in {"JSONDecodeError", "ValueError"}
    THEN [type |-> "HTTPException", status |-> 500,
          detail |-> "AI response format error"]
    ELSE [type |-> "HTTPException", status |-> 500,
          detail |-> "Error processing or saving AI response."]

OuterExcept(exc) ==
    [type |-> "HTTPException", status |-> 500,
     detail |-> "Failed to generate lesson content due to an API error."]

LesFailed(r, exc) ==
    [pc |-> "done", r |-> r, lesson_id |-> 0, vi |-> 0, qi |-> 0,
     saved_vocab_count |-> 0, saved_question_count |-> 0, session_ok |-> TRUE,
     status |-> exc.status, detail |-> exc.detail]

\* The awaited AI call, the parse and validation, and crud.create_lesson.
CreateLessonStart(r) ==
    /\ les.pc \in {"idle", "done"}
    /\ Len(lessons) < MaxLessons
    /\ IF ~r.ok
       THEN /\ les' = LesFailed(r, OuterExcept("APIError"))
            /\ lessons' = lessons
       ELSE IF ~json_loads_ok(StripFence(r.text), r.doc)
       THEN /\ les' = LesFailed(r, OuterExcept(InnerExcept("JSONDecodeError")))
            /\ lessons' = lessons
       ELSE IF ~StructureOk(r.doc)
       THEN /\ les' = LesFailed(r, OuterExcept(InnerExcept("ValueError")))
            /\ lessons' = lessons
       ELSE /\ lessons' = create_lesson(lessons, r.doc.title, r.doc.level,
                                        r.doc.topic, r.doc.text_passage)
            /\ les' = [pc |-> "vocab", r |-> r, lesson_id |-> Len(lessons'),
                       vi |-> 1, qi |-> 1, saved_vocab_count |-> 0,
                       saved_question_count |-> 0, session_ok |-> TRUE,
                       status |-> 0, detail |-> ""]
    /\ UNCHANGED <<quiz, users, vocabulary_items, questions, user_answers, now, held,
                   reg, resp>>

\* One iteration of the vocabulary loop, or its end.
LessonVocabStep ==
    /\ les.pc = "vocab"
    /\ LET list == les.r.doc.vocabulary_items IN
       IF ~list.isList \/ les.vi > Len(list.items)
       THEN /\ les' = [les EXCEPT !.pc = "questions"]
            /\ vocabulary_items' = vocabulary_items
       ELSE LET item_data == list.items[les.vi] IN
            IF item_data.isDict /\ "word" \in item_data.keys
               /\ CallAccepted(CreateVocabularyItemParams, CreateVocabularyItemCall)
               /\ les.session_ok
            THEN /\ vocabulary_items' =
                        create_vocabulary_item(vocabulary_items, les.lesson_id,
                                               item_data.word,
                                               item_data.phonetic_guide)
                 /\ les' = [les EXCEPT !.vi = @ + 1, !.saved_vocab_count = @ + 1]
            ELSE /\ vocabulary_items' = vocabulary_items
                 /\ les' = [les EXCEPT !.vi = @ + 1]
    /\ UNCHANGED <<quiz, users, lessons, questions, user_answers, now, held, reg, resp>>

\* One iteration of the comprehension-question loop, or its end.  A commit that
\* fails leaves the request's Session inactive (the handler never calls
\* db.rollback()), and every later use of that Session raises.
LessonQuestionStep ==
    /\ les.pc = "questions"
    /\ LET list == les.r.doc.comprehension_questions IN
       IF ~list.isList \/ les.qi > Len(list.items)
       THEN /\ les' = [les EXCEPT !.pc = "return"]
            /\ questions' = questions
       ELSE LET q_data == list.items[les.qi] IN
            IF ~(q_data.isDict /\ QuestionKeys \subseteq q_data.keys)
            THEN /\ questions' = questions
                 /\ les' = [les EXCEPT !.qi = @ + 1]
            ELSE IF ~q_data.optionsIsList
            THEN /\ questions' = questions
                 /\ les' = [les EXCEPT !.qi = @ + 1]
            ELSE IF ~les.session_ok
            THEN /\ questions' = questions
                 /\ les' = [les EXCEPT !.qi = @ + 1]
            ELSE IF ~QuestionRowStorable(q_data.question_text, q_data.correct_option)
            THEN /\ questions' = questions
                 /\ les' = [les EXCEPT !.qi = @ + 1, !.session_ok = FALSE]
            ELSE /\ questions' = create_question(questions, q_data.question_text,
                                    q_data.options, q_data.correct_option,
                                    les.lesson_id, "comprehension_mcq")
                 /\ les' = [les EXCEPT !.qi = @ + 1,
                                       !.saved_question_count = @ + 1]
    /\ UNCHANGED <<quiz, users, lessons, vocabulary_items, user_answers, now, held,
                   reg, resp>>

\* crud.get_lesson and the 201 response (or the failure of either).
LessonReturn ==
    /\ les.pc = "return"
    /\ IF ~les.session_ok
       THEN LET exc == OuterExcept(InnerExcept("PendingRollbackError")) IN
            les' = [les EXCEPT !.pc = "done", !.status = exc.status,
                               !.detail = exc.detail]
       ELSE IF get_lesson(lessons, les.lesson_id) = 0
       THEN LET exc == OuterExcept(InnerExcept("HTTPException")) IN
            les' = [les EXCEPT !.pc = "done", !.status = exc.status,
                               !.detail = exc.detail]
       ELSE les' = [les EXCEPT !.pc = "done", !.status = 201]
    /\ UNCHANGED <<quiz, users, lessons, vocabulary_items, questions, user_answers,
                   now, held, reg, resp>>

\* ------------------------------------------------- GET /lessons/{lesson_id}
ReadLessonResponse(lesson_id) ==
    IF get_lesson(lessons, lesson_id) = 0
    THEN [op |-> "lesson", status |-> 404, body |-> [detail |-> "Lesson not found"]]
    ELSE [op |-> "lesson", status |-> 200, body |-> LessonView(lesson_id)]

read_lesson(lesson_id) ==
    /\ resp' = ReadLessonResponse(lesson_id)
    /\ UNCHANGED <<quiz, users, lessons, vocabulary_items, questions, user_answers,
                   now, held, reg, les>>

LessonIds == 1..(MaxLessons + 1)

NextLesson ==
    \/ \E r \in UpstreamResponses : CreateLessonStart(r)
    \/ LessonVocabStep
    \/ LessonQuestionStep
    \/ LessonReturn
    \/ \E id \in LessonIds : read_lesson(id)

SpecLesson == Init /\ [][NextLesson]_vars

\* --------------------------------------------------- POST /submit-answers
\* Position of the question row with that id, 0 for None.
get_question(table, question_id) ==
    IF \E i \in 1..Len(table) : table[i].id = question_id
    THEN CHOOSE i \in 1..Len(table) : table[i].id = question_id
    ELSE 0

\* Mutant: the write replaces the user's earlier row for the same question.
create_user_answer_upsert(table, user_id, question_id, selected_option, is_correct) ==
    LET row == [id |-> Len(table) + 1, user_id |-> user_id,
                question_id |-> question_id,
                selected_option |-> selected_option, is_correct |-> is_correct]
        old == {k \in 1..Len(table) :
                    table[k].user_id = user_id /\ table[k].question_id = question_id}
    IN
    IF old = {} THEN Append(table, row)
    ELSE [k \in 1..Len(table) |->
            IF k \in old THEN [row EXCEPT !.id = table[k].id] ELSE table[k]]

\* Mutant: the row is stored with is_correct always true.
create_user_answer_all_correct(table, user_id, question_id, selected_option, is_correct) ==
    Append(table, [id |-> Len(table) + 1, user_id |-> user_id,
                   question_id |-> question_id,
                   selected_option |-> selected_option,
                   is_correct |-> TRUE])

create_user_answer(table, user_id, question_id, selected_option, is_correct) ==
    Append(table, [id |-> Len(table) + 1, user_id |-> user_id,
                   question_id |-> question_id,
                   selected_option |-> selected_option,
                   is_correct |-> is_correct])

\* A string with a NUL character: valid in a JSON request body, but the
\* PostgreSQL driver refuses to send it, so the write of a row holding it raises.
NulText == "\\u0000"

UserAnswerStorable(selected_option) == selected_option # NulText

Answer(question_id, selected_option) ==
    [question_id |-> question_id, selected_option |-> selected_option]

\* The loop of submit_answers from answer i on.  st carries the local counters,
\* the user_answers table, the state of the request's Session and whether an
\* exception has left the handler.  A failed commit is caught and printed but
\* never rolled back, so the next crud.get_question raises out of the loop.
RECURSIVE SubmitLoop(_, _, _, _)
SubmitLoop(st, answers, i, user_id) ==
    IF i > Len(answers) \/ st.raised THEN st
    ELSE IF ~st.session_ok
    THEN [st EXCEPT !.raised = TRUE]
    ELSE
      LET answer == answers[i]
          question == get_question(questions, answer.question_id)
      IN
      IF question = 0 THEN SubmitLoop(st, answers, i + 1, user_id)
      ELSE
        LET is_correct ==
                answer.selected_option = questions[question].correct_option
            counted ==
                [st EXCEPT !.processed_questions = @ + 1,
                           !.correct_count = IF is_correct THEN @ + 1 ELSE @]
        IN
        IF UserAnswerStorable(answer.selected_option)
        THEN SubmitLoop(
                [counted EXCEPT !.table =
                    create_user_answer(@, user_id, answer.question_id,
                                       answer.selected_option, is_correct)],
                answers, i + 1, user_id)
        ELSE SubmitLoop([counted EXCEPT !.session_ok = FALSE],
                        answers, i + 1, user_id)

SubmitStart(table) ==
    [correct_count |-> 0, processed_questions |-> 0, table |-> table,
     session_ok |-> TRUE, raised |-> FALSE]

\* Mutant: total_questions reports the number of submitted answers.
QuizResult_total_submitted(score, total_questions, submitted) ==
    [op |-> "submit", status |-> 200,
     body |-> [score |-> score, total_questions |-> submitted],
     submitted |-> submitted, token |-> NoToken]

QuizResult(score, total_questions, submitted) ==
    [op |-> "submit", status |-> 200,
     body |-> [score |-> score, total_questions |-> total_questions],
     submitted |-> submitted, token |-> NoToken]

SubmitFailure(status, detail, submitted) ==
    [op |-> "submit", status |-> status, body |-> [detail |-> detail],
     submitted |-> submitted, token |-> NoToken]

\* The response together with the bearer token of its request (`submitted` and
\* `token` are not part of the HTTP body: they record what was asked).
Echo(response, token) == [response EXCEPT !.token = token]

submit_answers(token, answers) ==
    /\ Len(user_answers) + Len(answers) <= MaxAnswerRows
    /\ LET current_user == get_current_user(token, users, now) IN
       IF current_user = 0
       THEN /\ resp' = Echo(SubmitFailure(401, "Could not validate credentials",
                                          Len(answers)), token)
            /\ user_answers' = user_answers
       ELSE IF Len(answers) = 0
       THEN /\ resp' = Echo(QuizResult(0, 0, 0), token)
            /\ user_answers' = user_answers
       ELSE LET end == SubmitLoop(SubmitStart(user_answers), answers, 1,
                                  users[current_user].id) IN
            /\ user_answers' = end.table
            /\ resp' = Echo(IF end.raised
                            THEN SubmitFailure(500, "Internal Server Error",
                                               Len(answers))
                            ELSE QuizResult(end.correct_count,
                                            end.processed_questions,
                                            Len(answers)),
                            token)
    /\ UNCHANGED <<quiz, users, lessons, vocabulary_items, questions, now, held, reg,
                   les>>

\* Bearer credentials a client can present: the token it holds, none, a
\* malformed one, and tokens that differ from an issued one in a single respect.
ForgedTokens ==
    {NoToken, GarbageToken}
    \cup {jwt_encode(e, MaxTicks * TickMinutes + ACCESS_TOKEN_EXPIRE_MINUTES, "other-key")
            : e \in Emails}
    \cup {jwt_encode(s, MaxTicks * TickMinutes + ACCESS_TOKEN_EXPIRE_MINUTES, SECRET_KEY)
            : s \in {NoSub, GhostEmail}}

PresentedTokens == {held} \cup ForgedTokens

NextAuth ==
    \/ \E s \in RegSlots, e \in Emails, p \in Passwords : RegisterLookup(s, e, p)
    \/ \E s \in RegSlots : RegisterCreate(s)
    \/ \E e \in Emails, p \in Passwords : login_for_access_token(e, p)
    \/ \E tok \in PresentedTokens : read_users_me(tok)
    \/ Tick

SpecAuth == Init /\ [][NextAuth]_vars

\* ---------------------------------------------------------- quiz scenario
\* A deployed database: both users registered, zero or one stored lesson with
\* its comprehension questions, and a client that logged in at time 0.
SeedUsers ==
    create_user(create_user(<<>>, "ana@x.io", "pw1"), "ben@x.io", "pw2")

SeedLessons == create_lesson(<<>>, "T", "A1", "food", "P")

SeedQuestion(table, q) ==
    create_question(table, q.question_text, q.options, q.correct_option, 1,
                    "comprehension_mcq")

SeedQuestionTables ==
    {<<>>, SeedQuestion(<<>>, QA), SeedQuestion(SeedQuestion(<<>>, QA), QB)}

InitQuiz ==
    /\ users = SeedUsers
    /\ questions \in SeedQuestionTables
    /\ lessons = IF questions = <<>> THEN <<>> ELSE SeedLessons
    /\ vocabulary_items = <<>>
    /\ user_answers = <<>>
    /\ now = 0
    /\ held \in {create_access_token(e, 0) : e \in Emails}
    /\ reg = [s \in RegSlots |-> IdleReg]
    /\ les = IdleLes
    /\ quiz = [s \in SubSlots |-> IdleSub]
    /\ resp = NoResp

AnswerInputs ==
    {Answer(1, "a"), Answer(1, "b"), Answer(2, NulText), Answer(3, "a")}

Submissions == SeqsUpTo(AnswerInputs, MaxAnswers)

NextQuiz ==
    \/ \E tok \in PresentedTokens, answers \in Submissions :
            submit_answers(tok, answers)
    \/ Tick

SpecQuiz == InitQuiz /\ [][NextQuiz]_vars

\* ------------------------------- POST /submit-answers, concurrent requests
\* The same handler one database commit at a time, so that requests served by
\* different workers interleave between their writes.  Each request has its
\* own Session and its own counters.
PendingOf(s) ==
    IF quiz[s].pc = "loop" THEN Len(quiz[s].answers) - quiz[s].i + 1 ELSE 0

RECURSIVE SumPending(_)
SumPending(S) ==
    IF S = {} THEN 0
    ELSE LET s == CHOOSE x \in S : TRUE IN PendingOf(s) + SumPending(S \ {s})

\* The dependency get_current_user, then the empty-submission return.
SubmitBegin(s, token, answers) ==
    /\ quiz[s].pc \in {"idle", "done"}
    /\ Len(user_answers) + SumPending(SubSlots) + Len(answers) <= MaxAnswerRows
    /\ LET current_user == get_current_user(token, users, now) IN
       quiz' = [quiz EXCEPT ![s] =
          IF current_user = 0
          THEN [IdleSub EXCEPT !.pc = "done",
                    !.response = SubmitFailure(401,
                        "Could not validate credentials", Len(answers))]
          ELSE IF Len(answers) = 0
          THEN [IdleSub EXCEPT !.pc = "done",
                    !.user_id = users[current_user].id,
                    !.response = QuizResult(0, 0, 0)]
          ELSE [IdleSub EXCEPT !.pc = "loop", !.answers = answers, !.i = 1,
                    !.user_id = users[current_user].id]]
    /\ UNCHANGED <<users, lessons, vocabulary_items, questions, user_answers,
                   now, held, reg, les, resp>>

\* One iteration of the loop: lookup, comparison and the committed write.
SubmitAnswerStep(s) ==
    /\ quiz[s].pc = "loop"
    /\ quiz[s].i <= Len(quiz[s].answers)
    /\ LET q == quiz[s]
           end == SubmitLoop([correct_count |-> q.correct_count,
                              processed_questions |-> q.processed_questions,
                              table |-> user_answers,
                              session_ok |-> q.session_ok, raised |-> FALSE],
                             <<q.answers[q.i]>>, 1, q.user_id)
       IN
       /\ user_answers' = end.table
       /\ quiz' = [quiz EXCEPT ![s] =
             IF end.raised
             THEN [IdleSub EXCEPT !.pc = "done", !.user_id = q.user_id,
                       !.response = SubmitFailure(500, "Internal Server Error",
                                                  Len(q.answers))]
             ELSE [q EXCEPT !.i = @ + 1,
                       !.correct_count = end.correct_count,
                       !.processed_questions = end.processed_questions,
                       !.session_ok = end.session_ok]]
    /\ UNCHANGED <<users, lessons, vocabulary_items, questions, now, held, reg,
                   les, resp>>

\* The return after the loop.
SubmitReturn(s) ==
    /\ quiz[s].pc = "loop"
    /\ quiz[s].i > Len(quiz[s].answers)
    /\ quiz' = [quiz EXCEPT ![s] =
            [IdleSub EXCEPT !.pc = "done", !.user_id = quiz[s].user_id,
                !.response = QuizResult(quiz[s].correct_count,
                                        quiz[s].processed_questions,
                                        Len(quiz[s].answers))]]
    /\ UNCHANGED <<users, lessons, vocabulary_items, questions, user_answers,
                   now, held, reg, les, resp>>

\* Answers of the concurrent scenario: the wrong answer to question 1 is the
\* right one in another letter case.
ConcurrentAnswerInputs ==
    (AnswerInputs \ {Answer(1, "b")}) \cup {Answer(1, "A")}

ConcurrentSubmissions == SeqsUpTo(ConcurrentAnswerInputs, MaxAnswers)

\* Credentials of the concurrent scenario: the held token or none.
ConcurrentTokens == {held, NoToken}

NextSubmit ==
    \/ \E s \in SubSlots, tok \in ConcurrentTokens,
          answers \in ConcurrentSubmissions : SubmitBegin(s, tok, answers)
    \/ \E s \in SubSlots : SubmitAnswerStep(s)
    \/ \E s \in SubSlots : SubmitReturn(s)

SpecSubmit == InitQuiz /\ [][NextSubmit]_vars

Next ==
    \/ NextAuth
    \/ NextLesson
    \/ NextSubmit
    \/ \E tok \in PresentedTokens, answers \in Submissions :
            submit_answers(tok, answers)

Spec == Init /\ [][Next]_vars

\* ===================================================================
\* Claims
\* ===================================================================
UserRowFor(email, password) ==
    \E i \in 1..Len(users) :
        /\ users[i].email = email
        /\ users[i].hashed_password = hash_password(password)

EmailTaken(email) == \E i \in 1..Len(users) : users[i].email = email

FoundAnswers(answers) ==
    {i \in 1..Len(answers) :
        \E k \in 1..Len(questions) : questions[k].id = answers[i].question_id}

NewAnswerRows ==
    SubSeq(user_answers', Len(user_answers) + 1, Len(user_answers'))

CorrectRows(rows) == {k \in 1..Len(rows) : rows[k].is_correct}

TokenRejected(tok) ==
    \/ tok.kind # "jwt"
    \/ tok.key # SECRET_KEY
    \/ tok.exp < now
    \/ tok.sub = NoSub
    \/ ~EmailTaken(tok.sub)

\* The requests a step can be: the response echoes the bearer token and the
\* number of answers of its request, so only the requests with that token and
\* that many answers are candidates.
SubmitTokens == {tok \in PresentedTokens : resp'.op = "submit" /\ tok = resp'.token}

SubmitLists ==
    IF resp'.op = "submit" /\ resp'.submitted <= MaxAnswers
    THEN [1..resp'.submitted -> AnswerInputs]
    ELSE {}

\* The same for a step whose response is the 200 with {score, total_questions}.
ReturnedLists == IF resp'.status = 200 THEN SubmitLists ELSE {}

\* C1: a submit-answers request by an authenticated user that returns reports
\* as total_questions the number of submitted pairs whose question exists, with
\* 0 <= score <= total_questions <= number submitted; only missing questions
\* give {score: 0, total_questions: 0}.
C1_TotalCountsFoundQuestions ==
    [][\A tok \in SubmitTokens, answers \in ReturnedLists :
        submit_answers(tok, answers) =>
            /\ resp'.body.total_questions = Cardinality(FoundAnswers(answers))
            /\ 0 <= resp'.body.score
            /\ resp'.body.score <= resp'.body.total_questions
            /\ resp'.body.total_questions <= Len(answers)
            /\ (FoundAnswers(answers) = {} =>
                    resp'.body = [score |-> 0, total_questions |-> 0])]_vars

C1_Witness ==
    /\ resp.op = "submit" /\ resp.status = 200
    /\ resp.submitted = 2
    /\ resp.body = [score |-> 1, total_questions |-> 1]

C1_WitnessNoneFound ==
    /\ resp.op = "submit" /\ resp.status = 200
    /\ resp.submitted = 1
    /\ resp.body = [score |-> 0, total_questions |-> 0]

\* C2 as stated: a submit-answers request that returns {score, total_questions}
\* has persisted exactly total_questions new rows, exactly score of them with
\* is_correct true.
C2_RowsEqualTotal ==
    [][\A tok \in SubmitTokens, answers \in ReturnedLists :
        submit_answers(tok, answers) =>
            /\ Len(NewAnswerRows) = resp'.body.total_questions
            /\ Cardinality(CorrectRows(NewAnswerRows)) = resp'.body.score]_vars

StoredAnswers(answers) ==
    SelectSeq(answers,
              LAMBDA a : /\ \E k \in 1..Len(questions) :
                                questions[k].id = a.question_id
                         /\ UserAnswerStorable(a.selected_option))

\* C2 amended: a submit-answers request that returns {score, total_questions}
\* has persisted one new row per found question whose write did not raise, in
\* submission order: at most total_questions rows, of which at most score have
\* is_correct true, and exactly total_questions and score when no write raised.
C2_RowsPerStoredAnswer ==
    [][\A tok \in SubmitTokens, answers \in ReturnedLists :
        submit_answers(tok, answers) =>
            LET rows == NewAnswerRows
                stored == StoredAnswers(answers)
            IN
            /\ Len(rows) = Len(stored)
            /\ \A k \in 1..Len(rows) :
                    /\ rows[k].question_id = stored[k].question_id
                    /\ rows[k].selected_option = stored[k].selected_option
            /\ Len(rows) <= resp'.body.total_questions
            /\ Cardinality(CorrectRows(rows)) <= resp'.body.score
            /\ (\A i \in 1..Len(answers) :
                    UserAnswerStorable(answers[i].selected_option)) =>
                    /\ Len(rows) = resp'.body.total_questions
                    /\ Cardinality(CorrectRows(rows)) = resp'.body.score]_vars

C2_Witness ==
    /\ resp.op = "submit" /\ resp.status = 200
    /\ resp.body = [score |-> 1, total_questions |-> 2]
    /\ Len(user_answers) = 2
    /\ user_answers[1].is_correct /\ ~user_answers[2].is_correct

\* C3: once an email is registered, a later POST /register/ with that email
\* (any password) ends with 400, creates no user row and leaves every existing
\* user row as it was.
C3_DuplicateEmailConflict ==
    [][/\ \A i \in 1..Len(users) : i <= Len(users') /\ users'[i] = users[i]
       /\ \A s \in RegSlots, e \in Emails, p \in Passwords :
            (RegisterLookup(s, e, p) /\ EmailTaken(e)) =>
                /\ reg'[s].pc = "done"
                /\ reg'[s].status = 400
                /\ users' = users]_vars

C3_Witness ==
    \E s \in RegSlots, i \in 1..Len(users) :
        /\ reg[s].pc = "done" /\ reg[s].status = 400
        /\ users[i].email = reg[s].email
        /\ users[i].hashed_password # hash_password(reg[s].password)

\* C4: after a registration with (email, password) succeeded, POST /token with
\* the same credentials yields a bearer token whose subject is that email, and
\* presenting that token before it expires returns exactly that user.
C4_RegisterLoginRoundTrip ==
    [][/\ \A e \in Emails, p \in Passwords :
            (login_for_access_token(e, p) /\ UserRowFor(e, p)) =>
                /\ resp'.status = 200
                /\ resp'.body.token_type = "bearer"
                /\ resp'.body.access_token.kind = "jwt"
                /\ resp'.body.access_token.sub = e
                /\ held' = resp'.body.access_token
       /\ (read_users_me(held) /\ held.kind = "jwt" /\ now <= held.exp) =>
                /\ resp'.status = 200
                /\ resp'.body.email = held.sub
                /\ \E i \in 1..Len(users) :
                        /\ users[i].email = held.sub
                        /\ users[i].id = resp'.body.id]_vars

C4_Witness ==
    /\ resp.op = "me" /\ resp.status = 200
    /\ now > 0
    /\ held.kind = "jwt" /\ resp.body.email = held.sub
    /\ Len(users) = 2 /\ resp.body.id = 2

\* C5: a submit-answers request whose bearer token is missing, malformed,
\* wrongly signed, expired, without subject or naming an unknown email gets 401
\* and persists nothing; every row a request persists carries the user_id of
\* the user whose email is the subject of the presented token.
C5_SubmitRequiresValidToken ==
    [][\A tok \in SubmitTokens, answers \in SubmitLists :
        \/ /\ TokenRejected(tok) =>
                    /\ resp'.status = 401
                    /\ user_answers' = user_answers
           /\ \A k \in 1..Len(NewAnswerRows) :
                    \E i \in 1..Len(users) :
                        /\ users[i].email = tok.sub
                        /\ NewAnswerRows[k].user_id = users[i].id
        \/ ~submit_answers(tok, answers)]_vars

C5_Witness ==
    /\ resp.op = "submit" /\ resp.status = 401 /\ resp.submitted > 0
    /\ Len(user_answers) > 0
    /\ user_answers[1].user_id = 2
    /\ held.exp < now

\* C6: POST /token answers 401 and issues no token when the email has no user
\* row or the password does not verify; it issues a token only when the user
\* exists and the password verifies.
C6_LoginRejectsBadCredentials ==
    [][\A e \in Emails, p \in Passwords :
        login_for_access_token(e, p) =>
            /\ resp'.status = 200 <=> UserRowFor(e, p)
            /\ resp'.status # 200 =>
                    /\ resp'.status = 401
                    /\ resp'.body = [detail |-> "Incorrect email or password"]
                    /\ held' = held]_vars

C6_Witness ==
    /\ resp.op = "token" /\ resp.status = 401
    /\ Len(users) = 2

C6_WitnessNoUser ==
    /\ resp.op = "token" /\ resp.status = 401
    /\ Len(users) = 0

\* The upstream response of the request a step starts: a starting step records
\* it in the request's state.
StartedWith ==
    IF les' # les /\ les.pc \in {"idle", "done"} THEN {les'.r} ELSE {}

\* C7: in POST /lessons, upstream text that after fence stripping is not valid
\* JSON, or is JSON other than one object with all six required keys, makes the
\* request fail with 500 and store no Lesson, VocabularyItem or Question row.
C7_MalformedUpstreamStoresNothing ==
    [][\A r \in StartedWith :
        (/\ CreateLessonStart(r)
         /\ r.ok
         /\ \/ StripFence(r.text) # <<"DOC">>
            \/ r.doc.type # "dict"
            \/ ~(required_keys \subseteq r.doc.keys)) =>
            /\ les'.pc = "done"
            /\ les'.status = 500
            /\ lessons' = lessons
            /\ vocabulary_items' = vocabulary_items
            /\ questions' = questions]_vars

C7_Witness ==
    /\ les.pc = "done" /\ les.status = 500
    /\ les.r.ok
    /\ les.r.doc.type = "dict"
    /\ ~(required_keys \subseteq les.r.doc.keys)
    /\ lessons = <<>> /\ questions = <<>>

C7_WitnessBareFence ==
    /\ les.pc = "done" /\ les.status = 500
    /\ les.r.ok
    /\ les.r.text = <<"FENCE", "WS", "DOC", "WS", "FENCE">>
    /\ lessons = <<>>

PersistableQuestion(q) ==
    /\ q.isDict
    /\ QuestionKeys \subseteq q.keys
    /\ q.optionsIsList
    /\ q.question_text # Null
    /\ q.correct_option # Null

QuestionAsItem(row) ==
    [question_text |-> row.question_text, options |-> row.options,
     correct_option |-> row.correct_option]

ItemAsQuestion(q) ==
    [question_text |-> q.question_text, options |-> q.options,
     correct_option |-> q.correct_option]

StoredQuestionsOf(lesson_id) ==
    LET rows == SelectSeq(questions, LAMBDA row : row.lesson_id = lesson_id) IN
    [k \in 1..Len(rows) |-> QuestionAsItem(rows[k])]

ExpectedQuestionsOf(list) ==
    LET good == SelectSeq(list.items, PersistableQuestion) IN
    [k \in 1..Len(good) |-> ItemAsQuestion(good[k])]

\* C8 as stated: when a generation request has processed its candidate
\* questions, exactly the well-formed items whose own write does not fail are
\* persisted, in order; any other item is skipped without preventing a later
\* good item from being persisted.
C8_EveryGoodItemPersisted ==
    (/\ les.pc = "done" /\ les.lesson_id # 0
     /\ les.r.doc.comprehension_questions.isList) =>
        StoredQuestionsOf(les.lesson_id) =
            ExpectedQuestionsOf(les.r.doc.comprehension_questions)

\* C9 as stated: when all candidate items have been processed and zero
\* questions were saved, the request fails; it succeeds only if at least one
\* was saved.
C9_ZeroSavedFails ==
    (les.pc = "done" /\ les.lesson_id # 0 /\ les.saved_question_count = 0) =>
        les.status # 201

ChildRowsReturned(list, table, lesson_id) ==
    /\ \A k \in 1..Len(list) :
            \E i \in 1..Len(table) :
                table[i] = list[k] /\ table[i].lesson_id = lesson_id
    /\ \A k \in 1..(Len(list) - 1) : list[k].id < list[k + 1].id
    /\ Len(list) =
            Cardinality({i \in 1..Len(table) : table[i].lesson_id = lesson_id})

C10_WitnessNotFound ==
    /\ resp.op = "lesson" /\ resp.status = 404
    /\ Len(lessons) = 1

\* The failure response of a POST /lessons request whose AI call itself failed.
UpstreamServiceError == LesFailed(<<>>, OuterExcept("APIError"))

\* C11 as stated: a POST /lessons request whose upstream text fails to parse as
\* JSON ends with a failure response that differs (in status or in detail)
\* from the failure response given when the AI call itself fails.
C11_ParseFailureDistinct ==
    (/\ les.pc = "done"
     /\ les.r.ok
     /\ ~json_loads_ok(StripFence(les.r.text), les.r.doc)) =>
        <<les.status, les.detail>> #
            <<UpstreamServiceError.status, UpstreamServiceError.detail>>

\* C12 as stated: every POST /register/ request that has ended, under any
\* interleaving with other register requests, ended with the created user
\* (201) or with the 400 conflict.
C12_RegisterEndsCreatedOrConflict ==
    \A s \in RegSlots :
        reg[s].pc = "done" =>
            \/ reg[s].status = 201
            \/ /\ reg[s].status = 400
               /\ reg[s].detail = "Email already registered"

WellFormedVocab(item) == item.isDict /\ "word" \in item.keys

VocabAsItem(row) ==
    [word |-> row.word, phonetic_guide |-> row.phonetic_guide,
     translation |-> row.translation]

ItemAsVocab(item) ==
    [word |-> item.word, phonetic_guide |-> item.phonetic_guide,
     translation |-> item.translation]

StoredVocabOf(lesson_id) ==
    LET rows == SelectSeq(vocabulary_items,
                          LAMBDA row : row.lesson_id = lesson_id) IN
    [k \in 1..Len(rows) |-> VocabAsItem(rows[k])]

ExpectedVocabOf(list) ==
    LET good == SelectSeq(list.items, WellFormedVocab) IN
    [k \in 1..Len(good) |-> ItemAsVocab(good[k])]

\* C13 as stated: when a POST /lessons request has returned its lesson, the
\* lesson's vocabulary rows are, in order, the entries of the upstream
\* vocabulary_items list that are objects with the key "word", each with its
\* word, phonetic_guide and translation.
C13_EveryVocabItemPersisted ==
    (/\ les.pc = "done" /\ les.status = 201
     /\ les.r.doc.vocabulary_items.isList) =>
        StoredVocabOf(les.lesson_id) =
            ExpectedVocabOf(les.r.doc.vocabulary_items)

\* C14 as stated: every persisted Question row has correct_option equal to one
\* of the elements of its options list.
C14_CorrectOptionAmongOptions ==
    \A i \in 1..Len(questions) :
        \E k \in 1..Len(questions[i].options) :
            questions[i].options[k] = questions[i].correct_option

\* C16: in every reachable state, also between the lookup and the insert of
\* concurrent register requests, no two User rows have the same email, and no
\* step changes or removes an existing User row (id, email, password hash).
C16_OneUserPerEmail ==
    /\ [](\A i, j \in 1..Len(users) :
            users[i].email = users[j].email => i = j)
    /\ [][\A i \in 1..Len(users) :
            /\ i <= Len(users')
            /\ users'[i].id = users[i].id
            /\ users'[i].email = users[i].email
            /\ users'[i].hashed_password = users[i].hashed_password]_vars

\* Two register requests for one email both passed the lookup; one created the
\* row and the index refused the other's insert.
C16_Witness ==
    /\ reg[1].pc = "done" /\ reg[2].pc = "done"
    /\ reg[1].email = reg[2].email
    /\ reg[1].password # reg[2].password
    /\ {reg[1].status, reg[2].status} = {201, 500}
    /\ Len(users) = 2
    /\ Cardinality({i \in 1..Len(users) : users[i].email = reg[1].email}) = 1

IsPrefix(a, b) == Len(a) <= Len(b) /\ SubSeq(b, 1, Len(a)) = a

Tagged(kind, items) == [k \in 1..Len(items) |-> <<kind, items[k]>>]

\* The valid items of an upstream document in processing order: the well-formed
\* vocabulary entries, then the well-formed questions.
ValidItemsOf(doc) ==
    Tagged("vocabulary", ExpectedVocabOf(doc.vocabulary_items))
        \o Tagged("question", ExpectedQuestionsOf(doc.comprehension_questions))

StoredItemsOf(lesson_id) ==
    Tagged("vocabulary", StoredVocabOf(lesson_id))
        \o Tagged("question", StoredQuestionsOf(lesson_id))

\* C17 as stated: at every point of a POST /lessons request (so also if it
\* stops there), every VocabularyItem row and every lesson-linked Question row
\* references a persisted Lesson row, questions are written only after the
\* vocabulary loop, and the rows the request has stored are its Lesson plus a
\* prefix of the valid items in processing order.
C17_LessonThenPrefixOfValidItems ==
    /\ \A i \in 1..Len(vocabulary_items) :
            get_lesson(lessons, vocabulary_items[i].lesson_id) # 0
    /\ \A i \in 1..Len(questions) :
            get_lesson(lessons, questions[i].lesson_id) # 0
    /\ les.lesson_id # 0 =>
            /\ get_lesson(lessons, les.lesson_id) # 0
            /\ StoredQuestionsOf(les.lesson_id) # <<>> =>
                    les.pc \in {"questions", "return", "done"}
            /\ IsPrefix(StoredItemsOf(les.lesson_id), ValidItemsOf(les.r.doc))

PersistedAnswerSound(row) ==
    /\ \E u \in 1..Len(users) : users[u].id = row.user_id
    /\ \E q \in 1..Len(questions) :
            /\ questions[q].id = row.question_id
            /\ row.is_correct <=>
                    (row.selected_option = questions[q].correct_option)

\* The answer the loop of slot s is about to process can be stored: its
\* question exists, its text is storable and the request's Session is usable.
AboutToStore(s) ==
    /\ quiz[s].pc = "loop"
    /\ quiz[s].i <= Len(quiz[s].answers)
    /\ quiz[s].session_ok
    /\ get_question(questions, quiz[s].answers[quiz[s].i].question_id) # 0
    /\ UserAnswerStorable(quiz[s].answers[quiz[s].i].selected_option)

\* C15: every persisted UserAnswer row references an existing User and an
\* existing Question and has is_correct = (selected_option = that question's
\* correct_option, compared case-sensitively); no step changes or removes a
\* row once written; and each storable answer to an existing question, also
\* to one the user has answered before or is answering in a concurrent
\* request, appends one further row.
C15_AnswersSoundAndAppendOnly ==
    /\ [](\A k \in 1..Len(user_answers) : PersistedAnswerSound(user_answers[k]))
    /\ [][IsPrefix(user_answers, user_answers')]_vars
    /\ [][\A s \in SubSlots :
            (AboutToStore(s) /\ quiz'[s] # quiz[s]) =>
                LET answer == quiz[s].answers[quiz[s].i] IN
                /\ Len(user_answers') = Len(user_answers) + 1
                /\ user_answers'[Len(user_answers')].user_id = quiz[s].user_id
                /\ user_answers'[Len(user_answers')].question_id =
                        answer.question_id
                /\ user_answers'[Len(user_answers')].selected_option =
                        answer.selected_option]_vars

\* Two requests of one user answered question 1 ("a" and "A"): two rows, the
\* first correct and the second not.
C15_Witness ==
    /\ quiz[1].pc = "done" /\ quiz[2].pc = "done"
    /\ quiz[1].response.submitted = 1 /\ quiz[2].response.submitted = 1
    /\ Len(user_answers) = 2
    /\ user_answers[1].user_id = user_answers[2].user_id
    /\ user_answers[1].question_id = user_answers[2].question_id
    /\ user_answers[1].selected_option = "a" /\ user_answers[1].is_correct
    /\ user_answers[2].selected_option = "A" /\ ~user_answers[2].is_correct

\* Both requests are in flight; one has written its row and the other is about
\* to answer the same question.
C15_WitnessConcurrent ==
    \E s, t \in SubSlots :
        /\ s # t
        /\ AboutToStore(s)
        /\ quiz[t].pc = "loop" /\ quiz[t].i = 2
        /\ Len(user_answers) = 1
        /\ user_answers[1].user_id = quiz[s].user_id
        /\ user_answers[1].question_id = quiz[s].answers[1].question_id
====
